---- MODULE Spec2Model ----
(***************************************************************************)
(* Model of the UM6 driver node (src/src/main.cpp): the reconnect loop of  *)
(* main(), the configuration sequence of configureSensor(), the streaming  *)
(* loop with its trigger-driven publish, and the reset service handler.    *)
(*                                                                         *)
(* The main thread is one process whose position is pc.  Every blocking    *)
(* call of the thread (ser.open, sendWaitAck, receive, sleep, spinOnce) is *)
(* one step.  The parameter server, the serial device, the process-wide    *)
(* shutdown flag and the service clients are the environment: what they    *)
(* answer is chosen with \E at the step that asks them.                    *)
(***************************************************************************)
EXTENDS Integers, Sequences, FiniteSets, TLC

(***************************************************************************)
(* Bounds of the model.                                                    *)
(***************************************************************************)
\* longest run of consecutive failed ser.open() calls that is explored
MaxFails == 2
\* trigger packets received on one connection
MaxFrames == 2
\* reset requests the bus holds for the advertised service
MaxQueue == 1
\* raw register values range over 0..MaxVal
MaxVal == 1
\* the components of a raw 3-vector range over -MaxRaw..MaxRaw
MaxRaw == 3

(***************************************************************************)
(* Parameters (ros::param).  A parameter that is not set on the parameter  *)
(* server is the empty set, a parameter that is set is the singleton of    *)
(* its value; ParamOr is ros::param::param(name, var, default).            *)
(***************************************************************************)
VectorParams == <<"mag_ref", "accel_ref", "mag_bias", "accel_bias", "gyro_bias", "gps_home">>

ParamNames == {"gps_baud", "gps_enable", "mag_updates", "accel_updates", "zero_gyros",
               "mag_ref", "accel_ref", "mag_bias", "accel_bias", "gyro_bias", "gps_home"}

SupportedBauds == {9600, 14400, 19200, 38400, 57600, 115200}

\* what the parameter server may hold for ~gps_baud: unset, a supported value, or not
GpsBaudParam == {{}} \cup {{b} : b \in SupportedBauds \cup {4800}}

\* what the parameter server may hold for a bool parameter
BoolParam == {{}, {TRUE}, {FALSE}}

\* ros::param::has(name) of a vector parameter group: {} absent, {TRUE} present
VectorParam == {{}, {TRUE}}

ParamOr(raw, default) == IF raw = {} THEN default ELSE CHOOSE v \in raw : TRUE

GpsBaudDefault == 9600
GpsEnableDefault == FALSE
MagUpdatesDefault == TRUE
AccelUpdatesDefault == TRUE
\* mutant: the gyros are not zeroed unless asked for
ZeroGyrosDefault_m == FALSE
ZeroGyrosDefault == TRUE
SensorBaud == 115200

(***************************************************************************)
(* baudValueToBitSetting: the 3-bit code of a baud rate; InvalidBaud       *)
(* stands for the std::runtime_error("Invalid Baud Rate") of the default   *)
(* branch.                                                                 *)
(***************************************************************************)
InvalidBaud == -1

\* mutant: 14400 gets the code of 19200
baudValueToBitSetting_m(baud_rate) ==
    CASE baud_rate \in {14400, 19200} -> 2
      [] baud_rate = 9600 -> 0
      [] baud_rate = 38400 -> 3
      [] baud_rate = 57600 -> 4
      [] baud_rate = 115200 -> 5
      [] OTHER -> InvalidBaud

baudValueToBitSetting(baud_rate) ==
    CASE baud_rate = 9600   -> 0
      [] baud_rate = 14400  -> 1
      [] baud_rate = 19200  -> 2
      [] baud_rate = 38400  -> 3
      [] baud_rate = 57600  -> 4
      [] baud_rate = 115200 -> 5
      [] OTHER              -> InvalidBaud

(***************************************************************************)
(* The communication register value built by configureSensor.  The        *)
(* bitmask is kept as its fields: the set of enable flags, the baud field  *)
(* and the GPS baud field (the fields do not overlap in the register).     *)
(***************************************************************************)
AlwaysOnFlags == {"BROADCAST", "GYROS_PROC", "ACCELS_PROC", "MAG_PROC",
                  "QUAT", "EULER", "COV", "TEMPERATURE"}

GpsFlags == {"GPS_POSITION", "GPS_REL_POSITION", "GPS_COURSE_SPEED",
             "GPS_SAT_SUMMARY", "GPS_SAT_DATA"}

comm_reg(gps_baud, gps_enable) ==
    [flags    |-> AlwaysOnFlags \cup (IF gps_enable THEN GpsFlags ELSE {}),
     baud     |-> baudValueToBitSetting(SensorBaud),
     gps_baud |-> baudValueToBitSetting(gps_baud)]

misc_config_reg(mag_updates, accel_updates) ==
    {"QUAT_ESTIMATE"} \cup (IF mag_updates THEN {"MAG_UPDATE"} ELSE {})
                      \cup (IF accel_updates THEN {"ACCEL_UPDATE"} ELSE {})

(***************************************************************************)
(* The acknowledgment tests.  sendWaitAck returns true when the device     *)
(* acknowledged.  Each operator says whether the caller throws.            *)
(***************************************************************************)
\* configureSensor: if (!sensor->sendWaitAck(r.communication)) throw
RegisterWriteThrows(acked) == ~acked

\* mutant: sendCommand never throws
sendCommandThrows_m(acked) == FALSE

\* sendCommand: if (!sensor->sendWaitAck(reg)) throw
sendCommandThrows(acked) == ~acked

\* configureVector3: if (sensor->sendWaitAck(reg)) throw
configureVector3Throws(acked) == acked

(***************************************************************************)
(* Registers and the trigger packet.                                       *)
(***************************************************************************)
UM6_TEMPERATURE == "UM6_TEMPERATURE"
UM6_GYRO_PROC == "UM6_GYRO_PROC"
RegIds == {UM6_TEMPERATURE, UM6_GYRO_PROC}
TRIGGER_PACKET == UM6_TEMPERATURE
NoPacket == "none"
Values == 0..MaxVal

\* um6::Registers registers;  (a fresh snapshot)
FreshRegisters == [r \in RegIds |-> 0]

\* mutant: every packet triggers
IsTrigger_m(id) == TRUE

\* if (sensor.receive(&registers) == TRIGGER_PACKET)
IsTrigger(id) == id = TRIGGER_PACKET

(***************************************************************************)
(* Reset requests.                                                         *)
(***************************************************************************)
ResetFlags == <<"zero_gyros", "reset_ekf", "set_mag_ref", "set_accel_ref">>
ResetRequests == [zero_gyros : BOOLEAN, reset_ekf : BOOLEAN,
                  set_mag_ref : BOOLEAN, set_accel_ref : BOOLEAN]

(***************************************************************************)
(* Error messages (e.what()).                                              *)
(***************************************************************************)
ErrInvalidBaud == "Invalid Baud Rate"
ErrComm == "Unable to set communication register."
ErrMisc == "Unable to set misc config register."
ErrCommand == "Command to device failed."
ErrVector == "Unable to configure vector."
ErrReceive == "receive failed"
NoError == "none"
ConfigErrors == {ErrInvalidBaud, ErrComm, ErrMisc, ErrCommand, ErrVector}

VARIABLES
    pc,            \* position of the main thread
    ok,            \* ros::ok(): FALSE once the shutdown signal is set
    isOpen,        \* ser.isOpen()
    first_failure, \* main's first_failure flag
    lastOpenFailed,\* history: the latest ser.open() failed
    consecFails,   \* history: length of the latest run of failed opens, kept until
                   \* the configuration of the next connection starts
    warns,         \* history: warnings logged during that run
    last_error,    \* e.what() of the exception thrown last, kept until the
                   \* configuration of the next connection is under way
    seen,          \* parameters configureSensor has read in the current run
    read,          \* what it read (raw parameter-server entries)
    cfgLog,        \* operations configureSensor has issued in the current run
    registers,     \* the register snapshot of the connection
    lastId,        \* what the latest receive returned
    nTrig,         \* history: trigger packets received on this connection
    nPub,          \* history: publishMsgs calls on this connection
    srvUp,         \* the reset service is advertised (srv is alive)
    queue,         \* reset requests held by the bus for the service
    srvLog,        \* what the step just taken dispatched to handleResetService
    call,          \* the function applied last and its arguments (FnSpec)
    ret            \* what that function produced (FnSpec)

mainVars == <<pc, ok, isOpen, first_failure, lastOpenFailed, consecFails, warns, last_error,
              seen, read, cfgLog, registers, lastId, nTrig, nPub, srvUp, queue, srvLog>>
fnVars == <<call, ret>>
vars == <<mainVars, fnVars>>

sessVars == <<isOpen, first_failure, lastOpenFailed, consecFails, warns>>
cfgVars == <<seen, read, cfgLog>>
streamVars == <<registers, lastId, nTrig, nPub>>
srvVars == <<srvUp, queue>>

NothingRead == [n \in ParamNames |-> {}]
NoCall == [fn |-> "none"]

Init ==
    /\ pc = "outer_head"
    /\ ok = TRUE
    /\ isOpen = FALSE
    /\ first_failure = TRUE
    /\ lastOpenFailed = FALSE
    /\ consecFails = 0
    /\ warns = 0
    /\ last_error = NoError
    /\ seen = {}
    /\ read = NothingRead
    /\ cfgLog = <<>>
    /\ registers = FreshRegisters
    /\ lastId = NoPacket
    /\ nTrig = 0
    /\ nPub = 0
    /\ srvUp = FALSE
    /\ queue = <<>>
    /\ srvLog = <<>>
    /\ call = NoCall
    /\ ret = NoCall


(***************************************************************************)
(* The reconnect loop of main().                                           *)
(***************************************************************************)
\* while (ros::ok()) of the reconnect loop
OuterLoopCond(rosok) == rosok

\* mutant: the streaming loop does not look at the shutdown signal
InnerLoopCond_m(rosok) == TRUE

\* while (ros::ok()) of the streaming loop
InnerLoopCond(rosok) == rosok

\* mutant: a successful open does not re-arm the flag
FirstFailureAfterOpen_m(ff) == ff

\* first_failure = true; after a successful open
FirstFailureAfterOpen(ff) == TRUE

\* first_failure = false; after a failed open
FirstFailureAfterFail(ff) == FALSE

\* ROS_WARN_STREAM_COND(first_failure, ...)
WarnCond(ff) == ff

\* mutant: the port is left open
AfterClose_m(open) == open

\* if (ser.isOpen()) ser.close();
AfterClose(open) == FALSE

\* the try block is left: srv, registers and sensor are destroyed, and the requests
\* the bus held for srv go with it
LeaveTry ==
    /\ registers' = FreshRegisters
    /\ lastId' = NoPacket
    /\ nTrig' = 0
    /\ nPub' = 0
    /\ srvUp' = FALSE
    /\ queue' = <<>>

\* a throw inside the try block: the stack unwinds and the catch clause is entered
Throw(msg) ==
    /\ pc' = "catch"
    /\ last_error' = msg
    /\ LeaveTry

OuterHead ==
    /\ pc = "outer_head"
    /\ srvLog' = <<>>
    /\ UNCHANGED fnVars
    /\ pc' = IF OuterLoopCond(ok) THEN "open" ELSE "done"
    /\ UNCHANGED <<ok, sessVars, last_error, cfgVars, streamVars, srvVars>>

\* ser.open() succeeds; ser.isOpen() is true
OpenOk ==
    /\ pc = "open"
    /\ srvLog' = <<>>
    /\ UNCHANGED fnVars
    /\ isOpen' = TRUE
    /\ first_failure' = FirstFailureAfterOpen(first_failure)
    /\ lastOpenFailed' = FALSE
    /\ pc' = "cfg_comm"
    /\ seen' = {}
    /\ read' = NothingRead
    /\ cfgLog' = <<>>
    /\ UNCHANGED <<ok, consecFails, warns, last_error, streamVars, srvVars>>

\* ser.open() throws serial::IOException; ser.isOpen() is false
OpenFail ==
    /\ pc = "open"
    /\ srvLog' = <<>>
    /\ UNCHANGED fnVars
    /\ lastOpenFailed => consecFails < MaxFails
    /\ consecFails' = IF lastOpenFailed THEN consecFails + 1 ELSE 1
    /\ warns' = (IF lastOpenFailed THEN warns ELSE 0)
                + (IF WarnCond(first_failure) THEN 1 ELSE 0)
    /\ lastOpenFailed' = TRUE
    /\ first_failure' = FirstFailureAfterFail(first_failure)
    /\ pc' = "sleep"
    /\ UNCHANGED <<ok, isOpen, last_error, cfgVars, streamVars, srvVars>>

\* ros::Duration(1.0).sleep()
Sleep ==
    /\ pc = "sleep"
    /\ srvLog' = <<>>
    /\ UNCHANGED fnVars
    /\ pc' = "outer_head"
    /\ UNCHANGED <<ok, sessVars, last_error, cfgVars, streamVars, srvVars>>

\* catch (const std::exception& e)
\* mutant: the catch clause never closes the port
CloseCond_m(open) == FALSE

\* if (ser.isOpen()) ser.close();  (line 474)
CloseCond(open) == open

Catch ==
    /\ pc = "catch"
    /\ srvLog' = <<>>
    /\ UNCHANGED fnVars
    /\ isOpen' = IF CloseCond(isOpen) THEN AfterClose(isOpen) ELSE isOpen
    /\ pc' = "sleep"
    /\ seen' = {}
    /\ read' = NothingRead
    /\ cfgLog' = <<>>
    /\ UNCHANGED <<ok, first_failure, lastOpenFailed, consecFails, warns, last_error,
                   streamVars, srvVars>>

(***************************************************************************)
(* configureSensor, one step per device operation.  Each step reads its   *)
(* parameters, issues its operation and waits for the acknowledgment.     *)
(***************************************************************************)
\* one device operation: what was sent, the value written, and whether it was acknowledged
Op(name, kind, val, acked) == [op |-> name, kind |-> kind, val |-> val, acked |-> acked]

NoValue == {}

\* the step after vector k in configureSensor
CfgPc(k) == IF k > Len(VectorParams) THEN "advertise" ELSE VectorParams[k]

\* lines 137-164: gps_baud, comm_reg, gps_enable, the communication write
CfgCommunication ==
    /\ pc = "cfg_comm"
    /\ srvLog' = <<>>
    /\ UNCHANGED fnVars
    /\ \E gb \in GpsBaudParam, ge \in BoolParam, acked \in BOOLEAN :
         LET gps_baud == ParamOr(gb, GpsBaudDefault)
             gps_enable == ParamOr(ge, GpsEnableDefault)
         IN  IF baudValueToBitSetting(SensorBaud) = InvalidBaud
                \/ baudValueToBitSetting(gps_baud) = InvalidBaud
             THEN /\ seen' = seen \cup {"gps_baud"}
                  /\ read' = [read EXCEPT !["gps_baud"] = gb]
                  /\ cfgLog' = cfgLog
                  /\ Throw(ErrInvalidBaud)
             ELSE /\ seen' = seen \cup {"gps_baud", "gps_enable"}
                  /\ read' = [read EXCEPT !["gps_baud"] = gb, !["gps_enable"] = ge]
                  /\ cfgLog' = Append(cfgLog, Op("communication", "write", comm_reg(gps_baud, gps_enable), acked))
                  /\ IF RegisterWriteThrows(acked)
                     THEN Throw(ErrComm)
                     ELSE /\ pc' = "cfg_misc"
                          /\ last_error' = NoError
                          /\ UNCHANGED <<streamVars, srvVars>>
    /\ consecFails' = 0
    /\ warns' = 0
    /\ UNCHANGED <<ok, isOpen, first_failure, lastOpenFailed>>

\* lines 166-191: the misc config write
CfgMiscConfig ==
    /\ pc = "cfg_misc"
    /\ srvLog' = <<>>
    /\ UNCHANGED fnVars
    /\ \E mu \in BoolParam, au \in BoolParam, acked \in BOOLEAN :
         /\ seen' = seen \cup {"mag_updates", "accel_updates"}
         /\ read' = [read EXCEPT !["mag_updates"] = mu, !["accel_updates"] = au]
         /\ cfgLog' = Append(cfgLog, Op("misc_config", "write",
                                    misc_config_reg(ParamOr(mu, MagUpdatesDefault),
                                                    ParamOr(au, AccelUpdatesDefault)),
                                    acked))
         /\ IF RegisterWriteThrows(acked)
            THEN Throw(ErrMisc)
            ELSE /\ pc' = "cfg_zero"
                 /\ UNCHANGED <<last_error, streamVars, srvVars>>
    /\ UNCHANGED <<ok, sessVars>>

\* lines 193-198: the zero gyros command
CfgZeroGyros ==
    /\ pc = "cfg_zero"
    /\ srvLog' = <<>>
    /\ UNCHANGED fnVars
    /\ \E zg \in BoolParam, acked \in BOOLEAN :
         /\ seen' = seen \cup {"zero_gyros"}
         /\ read' = [read EXCEPT !["zero_gyros"] = zg]
         /\ IF ParamOr(zg, ZeroGyrosDefault)
            THEN /\ cfgLog' = Append(cfgLog, Op("cmd_zero_gyros", "command", NoValue, acked))
                 /\ IF sendCommandThrows(acked)
                    THEN Throw(ErrCommand)
                    ELSE /\ pc' = CfgPc(1)
                         /\ UNCHANGED <<last_error, streamVars, srvVars>>
            ELSE /\ cfgLog' = cfgLog
                 /\ pc' = CfgPc(1)
                 /\ UNCHANGED <<last_error, streamVars, srvVars>>
    /\ UNCHANGED <<ok, sessVars>>

\* lines 200-211 with configureVector3 (lines 61-86): vector k of VectorParams;
\* the GPS home vector is looked at only if gps_enable
CfgVector(k) ==
    /\ pc = VectorParams[k]
    /\ srvLog' = <<>>
    /\ UNCHANGED fnVars
    /\ \E has \in VectorParam, acked \in BOOLEAN :
         LET name == VectorParams[k]
             gps_enable == ParamOr(read["gps_enable"], GpsEnableDefault)
             called == name # "gps_home" \/ gps_enable
         IN  IF called
             THEN /\ seen' = seen \cup {name}
                  /\ read' = [read EXCEPT ![name] = has]
                  /\ IF has # {}
                     THEN /\ cfgLog' = Append(cfgLog, Op(name, "write", NoValue, acked))
                          /\ IF configureVector3Throws(acked)
                             THEN Throw(ErrVector)
                             ELSE /\ pc' = CfgPc(k + 1)
                                  /\ UNCHANGED <<last_error, streamVars, srvVars>>
                     ELSE /\ cfgLog' = cfgLog
                          /\ pc' = CfgPc(k + 1)
                          /\ UNCHANGED <<last_error, streamVars, srvVars>>
             ELSE /\ pc' = CfgPc(k + 1)
                  /\ UNCHANGED <<last_error, streamVars, srvVars, cfgVars>>
    /\ UNCHANGED <<ok, sessVars>>

\* lines 457-459: the snapshot is created and the reset service advertised
Advertise ==
    /\ pc = "advertise"
    /\ srvLog' = <<>>
    /\ UNCHANGED fnVars
    /\ registers' = FreshRegisters
    /\ lastId' = NoPacket
    /\ nTrig' = 0
    /\ nPub' = 0
    /\ srvUp' = TRUE
    /\ queue' = <<>>
    /\ seen' = {}
    /\ read' = NothingRead
    /\ cfgLog' = <<>>
    /\ pc' = "inner_head"
    /\ UNCHANGED <<ok, sessVars, last_error>>


(***************************************************************************)
(* The streaming loop.                                                     *)
(***************************************************************************)
\* mutant: the bus is spun after every packet
AfterReceive_m(id) == IF IsTrigger(id) THEN "publish" ELSE "spin"

\* where the loop body goes after receive returned id (lines 463-469)
AfterReceive(id) == IF IsTrigger(id) THEN "publish" ELSE "inner_head"

InnerHead ==
    /\ pc = "inner_head"
    /\ srvLog' = <<>>
    /\ UNCHANGED fnVars
    /\ IF InnerLoopCond(ok)
       THEN /\ pc' = "receive"
            /\ UNCHANGED <<streamVars, srvUp, queue>>
       ELSE /\ pc' = "outer_head"
            /\ LeaveTry
    /\ UNCHANGED <<ok, sessVars, last_error, cfgVars>>

\* mutant: the snapshot is created anew for every receive
SnapshotAtReceive_m(regs) == FreshRegisters

\* the snapshot receive stores into: registers is declared before the streaming
\* loop (line 457), so every iteration passes the same object
SnapshotAtReceive(regs) == regs

\* sensor.receive(&registers) returns the identifier of the register it stored
ReceiveFrame ==
    /\ pc = "receive"
    /\ srvLog' = <<>>
    /\ UNCHANGED fnVars
    /\ \E id \in RegIds, v \in Values :
         /\ id = TRIGGER_PACKET => nTrig < MaxFrames
         /\ registers' = [SnapshotAtReceive(registers) EXCEPT ![id] = v]
         /\ lastId' = id
         /\ nTrig' = IF id = TRIGGER_PACKET THEN nTrig + 1 ELSE nTrig
         /\ pc' = AfterReceive(id)
    /\ UNCHANGED <<ok, sessVars, last_error, cfgVars, nPub, srvVars>>

\* sensor.receive(&registers) fails: the failure leaves the try block
ReceiveFail ==
    /\ pc = "receive"
    /\ srvLog' = <<>>
    /\ UNCHANGED fnVars
    /\ Throw(ErrReceive)
    /\ UNCHANGED <<ok, sessVars, cfgVars>>

\* header.stamp = now; publishMsgs(registers, &n, header);  The call is counted
\* here; what it publishes is a function of the snapshot, the subscribers and the
\* parameters, and is applied to them in FnSpec
Publish ==
    /\ pc = "publish"
    /\ srvLog' = <<>>
    /\ UNCHANGED fnVars
    /\ nPub' = nPub + 1
    /\ pc' = "spin"
    /\ UNCHANGED <<ok, sessVars, last_error, cfgVars, registers, lastId, nTrig, srvVars>>

(***************************************************************************)
(* The reset service.                                                      *)
(***************************************************************************)
\* mutant: the first two commands are exchanged
ResetCmds_m == <<"cmd_reset_ekf", "cmd_zero_gyros", "cmd_set_mag_ref", "cmd_set_accel_ref">>

ResetCmds == <<"cmd_zero_gyros", "cmd_reset_ekf", "cmd_set_mag_ref", "cmd_set_accel_ref">>

\* handleResetService from its i-th flag on: the commands it issues and whether a
\* sendCommand threw (the throw leaves the handler at once)
RECURSIVE handleResetFrom(_, _, _)
handleResetFrom(req, acks, i) ==
    IF i > Len(ResetFlags)
    THEN [ops |-> <<>>, threw |-> FALSE]
    ELSE IF req[ResetFlags[i]]
         THEN IF sendCommandThrows(acks[i])
              THEN [ops |-> <<Op(ResetCmds[i], "command", NoValue, acks[i])>>, threw |-> TRUE]
              ELSE LET rest == handleResetFrom(req, acks, i + 1)
                   IN  [ops |-> <<Op(ResetCmds[i], "command", NoValue, acks[i])>> \o rest.ops,
                        threw |-> rest.threw]
         ELSE handleResetFrom(req, acks, i + 1)

\* what the caller of the service gets: the handler's return value (true), or the
\* failure the bus reports when the handler threw
handleResetService(req, acks) ==
    LET run == handleResetFrom(req, acks, 1)
    IN  [req |-> req, ops |-> run.ops,
         result |-> IF run.threw THEN "exception" ELSE "true"]

\* the outcomes of handing the requests q to the handler, one after the other,
\* over all the ways the device may acknowledge the commands
RECURSIVE Dispatches(_)
Dispatches(q) ==
    IF q = <<>>
    THEN {<<>>}
    ELSE LET first == {handleResetService(Head(q), acks) :
                          acks \in [1..Len(ResetFlags) -> BOOLEAN]}
         IN  {<<r>> \o rest : r \in first, rest \in Dispatches(Tail(q))}

\* whether the handler threw on one of the dispatched requests
HandlerThrew(log) == \E i \in 1..Len(log) : log[i].result = "exception"

\* mutant: an exception of the handler leaves spinOnce and the try block
AfterSpin_m(threw) == IF threw THEN "catch" ELSE "inner_head"

\* where the loop goes after ros::spinOnce() (line 468): the handler runs inside
\* the bus, which catches its exception and reports it to the caller of the
\* service, so spinOnce returns into the loop either way
AfterSpin(threw) == "inner_head"

\* ros::spinOnce(): every request the bus holds is handed to handleResetService
SpinOnce ==
    /\ pc = "spin"
    /\ UNCHANGED fnVars
    /\ \E log \in Dispatches(queue) :
         /\ srvLog' = log
         /\ IF AfterSpin(HandlerThrew(log)) = "catch"
            THEN /\ Throw(ErrCommand)
                 /\ UNCHANGED <<ok, sessVars, cfgVars>>
            ELSE /\ pc' = AfterSpin(HandlerThrew(log))
                 /\ queue' = <<>>
                 /\ UNCHANGED <<ok, sessVars, last_error, cfgVars, streamVars, srvUp>>

(***************************************************************************)
(* The environment.                                                        *)
(***************************************************************************)
\* the process-wide shutdown signal: ros::ok() becomes false and stays false
Shutdown ==
    /\ ok
    /\ srvLog' = <<>>
    /\ UNCHANGED fnVars
    /\ ok' = FALSE
    /\ UNCHANGED <<pc, sessVars, last_error, cfgVars, streamVars, srvVars>>

\* a client calls the reset service; the bus holds the request until spinOnce
ResetRequest ==
    /\ srvUp
    /\ srvLog' = <<>>
    /\ UNCHANGED fnVars
    /\ Len(queue) < MaxQueue
    /\ \E req \in ResetRequests : queue' = Append(queue, req)
    /\ UNCHANGED <<pc, ok, sessVars, last_error, cfgVars, streamVars, srvUp>>

Main ==
    \/ OuterHead
    \/ OpenOk
    \/ OpenFail
    \/ Sleep
    \/ Catch
    \/ CfgCommunication
    \/ CfgMiscConfig
    \/ CfgZeroGyros
    \/ \E k \in 1..Len(VectorParams) : CfgVector(k)
    \/ Advertise
    \/ InnerHead
    \/ ReceiveFrame
    \/ ReceiveFail
    \/ Publish
    \/ SpinOnce

Next ==
    \/ Main
    \/ Shutdown
    \/ ResetRequest

Spec == Init /\ [][Next]_vars

(***************************************************************************)
(* publishMsgs.  The snapshot is kept by its scaled register values; the   *)
(* GPS status register is kept as its bit fields.  A 3-vector register is  *)
(* a sequence of its three values (index 0, 1, 2 of the code is 1, 2, 3    *)
(* here).                                                                  *)
(***************************************************************************)
Channels == {"imu", "mag", "rpy", "temp", "gps_status", "gps_abs", "gps_rel",
             "gps_dop", "gps_num_sat", "gps_odom"}

ImuChannels == {"imu", "mag", "rpy", "temp"}

RawVals == (0 - MaxRaw)..MaxRaw
Vec3 == {<<a, b, c>> : a \in RawVals, b \in RawVals, c \in RawVals}

GpsStatuses == [mode : {3}, hdop : 0..MaxVal, vdop : 0..MaxVal, sats : {9}]

\* a snapshot whose four vector registers run through every raw vector
SnapshotOf(v, st) ==
    [quat |-> <<1, v[1], v[2], v[3]>>,
     covariance |-> [i \in 1..16 |-> i - 1],
     gyro |-> v,
     accel |-> <<v[2], v[3], v[1]>>,
     mag |-> <<v[3], v[1], v[2]>>,
     euler |-> <<0 - v[1], 0 - v[2], 0 - v[3]>>,
     temperature |-> v[1],
     gps_status |-> st,
     gps_abs |-> <<v[1], v[2], v[3]>>,
     gps_rel |-> <<v[3], v[2], v[1]>>,
     gps_course_speed |-> <<v[1], v[2]>>]

Snapshots == {SnapshotOf(v, st) : v \in Vec3, st \in GpsStatuses}

\* lines 238-272
ImuMsg(r) ==
    [orientation |-> <<r.quat[3], r.quat[2], 0 - r.quat[4], r.quat[1]>>,
     orientation_covariance |->
         <<r.covariance[6], r.covariance[7], r.covariance[8],
           r.covariance[10], r.covariance[11], r.covariance[12],
           r.covariance[14], r.covariance[15], r.covariance[16]>>,
     angular_velocity |-> <<r.gyro[2], r.gyro[1], 0 - r.gyro[3]>>,
     linear_acceleration |-> <<r.accel[2], r.accel[1], 0 - r.accel[3]>>]

\* mutant: the magnetic field is published as the device reports it
MagMsg_m(r) == <<r.mag[1], r.mag[2], r.mag[3]>>

\* lines 274-282
MagMsg(r) == <<r.mag[2], r.mag[1], 0 - r.mag[3]>>

\* lines 284-292
RpyMsg(r) == <<r.euler[2], r.euler[1], 0 - r.euler[3]>>

\* lines 294-299
TempMsg(r) == r.temperature

\* lines 311-316
GpsStatusMsg(r) == r.gps_status.mode

\* lines 318-326
GpsAbsMsg(r) == <<r.gps_abs[1], r.gps_abs[2], r.gps_abs[3]>>

\* lines 328-336
GpsRelMsg(r) == <<r.gps_rel[1], r.gps_rel[2], r.gps_rel[3]>>

\* lines 338-347
GpsDopMsg(r) == <<r.gps_status.hdop, r.gps_status.hdop, r.gps_status.vdop>>

\* lines 349-354
GpsNumSatMsg(r) == r.gps_status.sats

\* lines 363-407; pdop = sqrt(hdop^2 + vdop^2) is kept as its square, and the
\* velocity as the course and speed it is computed from
GpsOdomMsg(r) ==
    [position |-> <<r.gps_abs[1], r.gps_abs[2], r.gps_abs[3]>>,
     orientation |-> <<0, 0, 0, 1>>,
     pdop_squared |-> r.gps_status.hdop * r.gps_status.hdop
                      + r.gps_status.vdop * r.gps_status.vdop,
     course_speed |-> r.gps_course_speed]

MsgOf(c, r) ==
    CASE c = "imu" -> ImuMsg(r)
      [] c = "mag" -> MagMsg(r)
      [] c = "rpy" -> RpyMsg(r)
      [] c = "temp" -> TempMsg(r)
      [] c = "gps_status" -> GpsStatusMsg(r)
      [] c = "gps_abs" -> GpsAbsMsg(r)
      [] c = "gps_rel" -> GpsRelMsg(r)
      [] c = "gps_dop" -> GpsDopMsg(r)
      [] c = "gps_num_sat" -> GpsNumSatMsg(r)
      [] c = "gps_odom" -> GpsOdomMsg(r)

\* the condition under which the block of channel c is entered: the subscriber test
\* of its publisher, and for the odometry the test of the publisher itself
\* (if(gps_odom_pub), line 362), which holds for every advertised publisher
ChannelGate(c, subs, gps_enable, has_gps_odom) ==
    CASE c \in ImuChannels -> c \in subs
      [] c = "gps_odom" -> gps_enable /\ has_gps_odom
      [] OTHER -> gps_enable /\ c \in subs

\* whether the block of channel c ends in a publish call: the block of gps_dop
\* (lines 338-347) fills its message and has none
BlockPublishes(c) == c # "gps_dop"

\* publishMsgs(r, n, header): the messages built and the channels published, with
\* subs the channels that have a subscriber, gps_enable_raw the ~gps_enable entry
\* and has_gps_odom whether ~gps_odom is set
publishMsgs(r, subs, gps_enable_raw, has_gps_odom) ==
    LET gps_enable == ParamOr(gps_enable_raw, GpsEnableDefault)
        entered == {c \in Channels : ChannelGate(c, subs, gps_enable, has_gps_odom)}
    IN  [built |-> [c \in entered |-> MsgOf(c, r)],
         published |-> {c \in entered : BlockPublishes(c)}]

(***************************************************************************)
(* The functions of the driver applied to bounded inputs: publishMsgs over *)
(* the snapshots and over the subscriber sets, and the communication       *)
(* register configureSensor builds over the parameters of the node.  call  *)
(* holds the function and its arguments, ret what it produced.  A          *)
(* behaviour applies one function, once, to one choice of its inputs.      *)
(***************************************************************************)
\* every raw vector, every channel subscribed, GPS and odometry on
PublishVectors ==
    /\ call = NoCall
    /\ UNCHANGED mainVars
    /\ \E r \in Snapshots :
        /\ call' = [fn |-> "publishMsgs", r |-> r, subs |-> Channels,
                    gps_enable |-> {TRUE}, has_gps_odom |-> TRUE]
        /\ ret' = publishMsgs(r, Channels, {TRUE}, TRUE)

\* every set of subscribed channels and every setting of the two parameters
PublishSubscribers ==
    /\ call = NoCall
    /\ UNCHANGED mainVars
    /\ \E subs \in SUBSET Channels, ge \in BoolParam, odom \in BOOLEAN, st \in GpsStatuses :
        LET r == SnapshotOf(<<1, 2, 3>>, st)
        IN  /\ call' = [fn |-> "publishMsgs", r |-> r, subs |-> subs,
                        gps_enable |-> ge, has_gps_odom |-> odom]
            /\ ret' = publishMsgs(r, subs, ge, odom)

\* what the parameter server may hold for ~baud (line 426)
SensorBaudParam == {{}} \cup {{b} : b \in SupportedBauds \cup {4800}}

\* main reads ~baud for the port (lines 426, 430); configureSensor reads ~gps_baud
\* and ~gps_enable and builds comm_reg (lines 137-158)
BuildCommReg ==
    /\ call = NoCall
    /\ UNCHANGED mainVars
    /\ \E bd \in SensorBaudParam, gb \in GpsBaudParam, ge \in BoolParam :
        LET gps_baud == ParamOr(gb, GpsBaudDefault)
            gps_enable == ParamOr(ge, GpsEnableDefault)
            threw == \/ baudValueToBitSetting(SensorBaud) = InvalidBaud
                     \/ baudValueToBitSetting(gps_baud) = InvalidBaud
        IN  /\ call' = [fn |-> "configureSensor", baud |-> bd, gps_baud |-> gb,
                        gps_enable |-> ge]
            /\ ret' = [threw |-> threw,
                       comm_reg |-> IF threw THEN NoValue ELSE comm_reg(gps_baud, gps_enable)]

FnNext ==
    \/ PublishVectors
    \/ PublishSubscribers
    \/ BuildCommReg

FnSpec == Init /\ [][FnNext]_vars


(***************************************************************************)
(* Vocabulary of the properties.                                           *)
(***************************************************************************)
OpNames(log) == [i \in 1..Len(log) |-> log[i].op]
OpKinds(log) == [i \in 1..Len(log) |-> log[i].kind]

IsPrefix(a, b) == Len(a) <= Len(b) /\ \A i \in 1..Len(a) : a[i] = b[i]

\* configureSensor returned normally
ConfigDone == pc = "advertise"

\* configureSensor threw and the catch clause has been entered
ConfigFailed == pc = "catch" /\ last_error \in ConfigErrors

AllAcked == \A i \in 1..Len(cfgLog) : cfgLog[i].acked

\* the nine operations of a full configuration, in the order of the code
NineOps == <<"communication", "misc_config", "cmd_zero_gyros", "mag_ref", "accel_ref",
             "mag_bias", "accel_bias", "gyro_bias", "gps_home">>

\* every parameter read so far is as in the configuration "GPS enabled, gyros
\* zeroed on startup, all six vectors present" (a run that ended is a run under
\* that configuration, whatever the parameters it never read)
ReadsFullConfig ==
    /\ "gps_enable" \in seen => read["gps_enable"] = {TRUE}
    /\ "zero_gyros" \in seen => ParamOr(read["zero_gyros"], ZeroGyrosDefault)
    /\ \A k \in 1..Len(VectorParams) :
         VectorParams[k] \in seen => read[VectorParams[k]] = {TRUE}

\* no parameter is set on the parameter server
ReadsAllDefaults == \A n \in ParamNames : read[n] = {}

(***************************************************************************)
(* C1.  If the acknowledgment of a configuration step is not received, no  *)
(* later configuration operation is issued on the connection, and the      *)
(* sequence has ended as a configuration failure (the catch clause, not    *)
(* the streaming loop).  The code breaks it: configureVector3 throws when  *)
(* the acknowledgment IS received and goes on when it is not.              *)
(***************************************************************************)
C1_UnackedStepAborts ==
    \A i \in 1..Len(cfgLog) :
        ~cfgLog[i].acked => i = Len(cfgLog) /\ ConfigFailed

(***************************************************************************)
(* C2.  With GPS enabled, zero gyros true, all six vectors present, a      *)
(* valid baud rate and every operation acknowledged, a run of the          *)
(* configuration sequence that has ended has issued exactly the nine       *)
(* operations, in order.  The code breaks it: the first acknowledged       *)
(* vector write throws.                                                    *)
(***************************************************************************)
C2_FullConfigIssuesNine ==
    ((ConfigDone \/ ConfigFailed) /\ last_error # ErrInvalidBaud
        /\ ReadsFullConfig /\ AllAcked)
    => OpNames(cfgLog) = NineOps

(***************************************************************************)
(* C3.  Whatever the optional parameters, a configuration run in which     *)
(* every issued operation is acknowledged (and the baud rate is valid)     *)
(* does not fail: it completes and the session goes on to streaming.  The  *)
(* code breaks it for every configuration with a vector present.           *)
(***************************************************************************)
C3_AckedConfigCompletes ==
    (ConfigFailed /\ last_error # ErrInvalidBaud) => ~AllAcked

(***************************************************************************)
(* C4, as claimed.  With no parameter set (so GPS disabled), a successful  *)
(* configuration run issues exactly the two register writes and no         *)
(* command.                                                                *)
(***************************************************************************)
C4_DefaultsTwoWritesNoCommand ==
    (ConfigDone /\ ReadsAllDefaults)
    => OpNames(cfgLog) = <<"communication", "misc_config">>

(***************************************************************************)
(* C4, amended.  With no parameter set, a successful configuration run     *)
(* issues exactly three operations: the communication write, the misc      *)
(* config write, and then the zero gyros command (zero_gyros defaults to   *)
(* true); no vector is written.                                            *)
(***************************************************************************)
C4_DefaultsTwoWritesThenZeroGyros ==
    (ConfigDone /\ ReadsAllDefaults)
    => /\ OpNames(cfgLog) = <<"communication", "misc_config", "cmd_zero_gyros">>
       /\ OpKinds(cfgLog) = <<"write", "write", "command">>
       /\ AllAcked

C4_Witness == ConfigDone /\ ReadsAllDefaults /\ Len(cfgLog) = 3

(***************************************************************************)
(* C5.  After a configuration failure or a receive failure the catch       *)
(* clause closes the port and sleeps, the loop head follows, and the next  *)
(* device interaction is a fresh open; a successful open starts the        *)
(* configuration from its first step, the communication write.  No         *)
(* configuration step, receive or dispatch happens on the way.             *)
(***************************************************************************)
NoDeviceOperation ==
    /\ cfgLog' = cfgLog \/ cfgLog' = <<>>
    /\ registers' = registers \/ registers' = FreshRegisters
    /\ srvLog' = <<>>

C5_FaultRestartsCycle ==
    [][ /\ (pc = "catch" /\ pc' # pc)
           => pc' = "sleep" /\ ~isOpen' /\ NoDeviceOperation
        /\ (pc = "sleep" /\ pc' # pc)
           => pc' = "outer_head" /\ isOpen' = isOpen /\ NoDeviceOperation
        /\ (pc = "outer_head" /\ pc' # pc)
           => pc' \in {"open", "done"} /\ isOpen' = isOpen /\ NoDeviceOperation
        /\ (pc = "open" /\ pc' # pc)
           => \/ pc' = "cfg_comm" /\ isOpen' /\ cfgLog' = <<>> /\ seen' = {}
              \/ pc' = "sleep" /\ ~isOpen'
        /\ (cfgLog = <<>> /\ cfgLog' # <<>>)
           => pc = "cfg_comm" /\ OpNames(cfgLog') = <<"communication">>
      ]_vars

\* a connection that was opened after a receive failure
C5_Witness == pc = "cfg_comm" /\ isOpen /\ last_error = ErrReceive

(***************************************************************************)
(* C6, as claimed.  The reset service is dispatched only at the spinOnce   *)
(* of the streaming loop, and a request the bus holds stays queued until   *)
(* then, whatever the session is doing.  The code breaks the second half:  *)
(* srv lives in the try block, so the requests held for it go when a       *)
(* receive fails or the streaming loop is left.                            *)
(***************************************************************************)
C6_RequestStaysQueuedUntilSpin ==
    [][ /\ srvLog' # <<>> => pc = "spin"
        /\ pc # "spin" => IsPrefix(queue, queue')
      ]_vars

(***************************************************************************)
(* C6, amended.  The reset service is dispatched only by the spinOnce that *)
(* immediately follows a trigger-driven publish.  The service exists only  *)
(* in the streaming loop of a connection, so requests are held only there: *)
(* a held request is not handed to the handler by any other step; it stays *)
(* queued while the service lives and is discarded with it.  No dispatcher *)
(* command is issued during a receive or a configuration step.             *)
(***************************************************************************)
StreamingPcs == {"inner_head", "receive", "publish", "spin"}

C6_DispatchOnlyAtYield ==
    [][ /\ srvLog' # <<>> => pc = "spin" /\ pc' = "inner_head" /\ srvUp /\ isOpen
        /\ (pc' = "spin" /\ pc # "spin")
           => pc = "publish" /\ lastId = TRIGGER_PACKET /\ nPub' = nTrig
        /\ (pc' = "publish" /\ pc # "publish")
           => pc = "receive" /\ lastId' = TRIGGER_PACKET
        /\ (pc # "spin" /\ srvUp') => IsPrefix(queue, queue')
        /\ srvUp' => pc' \in StreamingPcs
        /\ ~srvUp' => queue' = <<>>
      ]_vars

\* a request that waited through a receive has been dispatched and issued a command
C6_Witness == srvLog # <<>> /\ srvLog[1].ops # <<>> /\ pc = "inner_head"

(***************************************************************************)
(* C7.  publishMsgs is called exactly once for each receive that returns   *)
(* the trigger identifier, and never for another identifier; a receive of  *)
(* another identifier changes nothing but that register of the snapshot.   *)
(***************************************************************************)
C7_PublishOncePerTrigger ==
    [][ /\ (pc = "receive" /\ pc' \notin {"receive", "catch"})
           => /\ lastId' \in RegIds
              /\ \A r \in RegIds \ {lastId'} : registers'[r] = registers[r]
              /\ nPub' = nPub
              /\ IF lastId' = TRIGGER_PACKET
                 THEN pc' = "publish" /\ nTrig' = nTrig + 1
                 ELSE pc' = "inner_head" /\ nTrig' = nTrig
        /\ (pc = "publish" /\ pc' # pc)
           => nPub' = nPub + 1 /\ nPub' = nTrig /\ lastId = TRIGGER_PACKET
        /\ (nPub' # nPub /\ nPub' # 0) => pc = "publish"
        /\ pc \in {"inner_head", "receive", "spin"} => nPub = nTrig
      ]_vars

\* a non-trigger packet received after two triggers were published
C7_Witness == nPub = MaxFrames /\ nTrig = MaxFrames /\ lastId = UM6_GYRO_PROC
              /\ pc = "inner_head"

(***************************************************************************)
(* C8.  A run of consecutive failed opens logs exactly one warning, at     *)
(* its first failure; a successful open re-arms first_failure.             *)
(***************************************************************************)
C8_OneWarningPerRun ==
    /\ consecFails >= 1 => warns = 1
    /\ consecFails = 0 => warns = 0
    /\ first_failure = ~lastOpenFailed

\* two failed opens, then a successful one: one warning, and configuring
C8_Witness == pc = "cfg_comm" /\ isOpen /\ consecFails = 2 /\ warns = 1 /\ first_failure

(***************************************************************************)
(* C9.  Once an invalid baud rate has been detected, the session makes no  *)
(* further open attempt and no further configuration attempt.  The code    *)
(* breaks it: the throw is caught like any other and the loop reconnects.  *)
(***************************************************************************)
C9_InvalidBaudNotRetried ==
    ~(last_error = ErrInvalidBaud /\ pc \in {"open", "cfg_comm"})

(***************************************************************************)
(* C10.  The shutdown signal stays set; a loop head evaluated with the     *)
(* signal set exits its loop (the streaming loop to the reconnect loop's   *)
(* head, the reconnect loop to the end of main); an open, a configuration  *)
(* and a receive are started only from a loop head that found the signal   *)
(* unset; after the end of main nothing happens.                           *)
(***************************************************************************)
C10_ShutdownExitsAtLoopHead ==
    [][ /\ ~ok => ~ok'
        /\ (pc = "outer_head" /\ pc' # pc) => pc' = IF ok THEN "open" ELSE "done"
        /\ (pc = "inner_head" /\ pc' # pc) => pc' = IF ok THEN "receive" ELSE "outer_head"
        /\ (pc' = "open" /\ pc # "open") => pc = "outer_head" /\ ok
        /\ (pc' = "cfg_comm" /\ pc # "cfg_comm") => pc = "open"
        /\ (pc' = "receive" /\ pc # "receive") => pc = "inner_head" /\ ok
        /\ pc = "done" => pc' = "done" /\ NoDeviceOperation /\ isOpen' = isOpen
      ]_vars

\* main has ended out of the streaming loop
C10_Witness == pc = "done" /\ ~ok /\ isOpen


FlaggedCmds(req) ==
    (IF req.zero_gyros THEN <<"cmd_zero_gyros">> ELSE <<>>)
    \o (IF req.reset_ekf THEN <<"cmd_reset_ekf">> ELSE <<>>)
    \o (IF req.set_mag_ref THEN <<"cmd_set_mag_ref">> ELSE <<>>)
    \o (IF req.set_accel_ref THEN <<"cmd_set_accel_ref">> ELSE <<>>)

AllOpsAcked(ops) == \A j \in 1..Len(ops) : ops[j].acked

OnlyResetEkf(req) ==
    req.reset_ekf /\ ~req.zero_gyros /\ ~req.set_mag_ref /\ ~req.set_accel_ref

C12_AckedRequestIssuesFlaggedInOrder ==
    \A i \in 1..Len(srvLog) :
        LET e == srvLog[i]
        IN  AllOpsAcked(e.ops)
            => /\ OpNames(e.ops) = FlaggedCmds(e.req)
               /\ \A j \in 1..Len(e.ops) : e.ops[j].kind = "command"
               /\ e.result = "true"
               /\ FlaggedCmds(e.req) = <<>> => e.ops = <<>>
               /\ OnlyResetEkf(e.req) => OpNames(e.ops) = <<"cmd_reset_ekf">>

\* a request with all four flags set was dispatched and every command acknowledged
C12_Witness ==
    /\ srvLog # <<>>
    /\ Len(srvLog[1].ops) = 4
    /\ AllOpsAcked(srvLog[1].ops)
    /\ srvLog[1].result = "true"

(***************************************************************************)
(* C15.  While a connection streams, a field of the snapshot changes only  *)
(* by the receive of a frame for that very register: a frame for another   *)
(* register, a trigger, a publish and a dispatch all leave it as it was,   *)
(* so a field no frame overwrote between two triggers has the same value   *)
(* at both.                                                                *)
(***************************************************************************)
C15_SnapshotFieldPersists ==
    [][ \A r \in RegIds :
          (pc \in StreamingPcs /\ pc' \in StreamingPcs /\ registers'[r] # registers[r])
          => pc = "receive" /\ lastId' = r
      ]_vars

\* the second trigger of a connection is published with a field set by an earlier frame
C15_Witness ==
    /\ pc = "publish" /\ nTrig >= 2 /\ nPub = nTrig - 1
    /\ lastId = TRIGGER_PACKET
    /\ registers[UM6_GYRO_PROC] # FreshRegisters[UM6_GYRO_PROC]

(***************************************************************************)
(* C16.  The six supported baud rates map one-to-one onto the codes 0..5   *)
(* (9600 -> 0, 14400 -> 1, 19200 -> 2, 38400 -> 3, 57600 -> 4,            *)
(* 115200 -> 5), the communication write carries that code for the baud    *)
(* rate the configuration read, and a baud rate outside the six is         *)
(* rejected before any register is written.                                *)
(***************************************************************************)
BaudTable ==
    {<<9600, 0>>, <<14400, 1>>, <<19200, 2>>, <<38400, 3>>, <<57600, 4>>, <<115200, 5>>}

C17_FailedAckDoesNotAbort ==
    \A i \in 1..Len(srvLog) :
        OpNames(srvLog[i].ops) = FlaggedCmds(srvLog[i].req)

(***************************************************************************)
(* C17, amended.  The first command of a reset request that is not         *)
(* acknowledged ends the request: sendCommand throws out of the handler,   *)
(* no later flagged command of that request is issued, and the caller gets *)
(* the failure instead of the return value.  The commands issued are the   *)
(* flagged commands, in order, up to and including the unacknowledged one. *)
(***************************************************************************)
C17_FailedAckAbortsRequest ==
    \A i \in 1..Len(srvLog) :
        LET e == srvLog[i]
            n == Len(e.ops)
        IN  /\ IsPrefix(OpNames(e.ops), FlaggedCmds(e.req))
            /\ \A j \in 1..n : ~e.ops[j].acked => j = n
            /\ e.result = "exception" <=> (n > 0 /\ ~e.ops[n].acked)
            /\ e.result = "true" <=> (AllOpsAcked(e.ops) /\ n = Len(FlaggedCmds(e.req)))

\* a request whose first flagged command failed left a later flagged command unissued
C17_Witness ==
    /\ srvLog # <<>>
    /\ srvLog[1].result = "exception"
    /\ Len(srvLog[1].ops) < Len(FlaggedCmds(srvLog[1].req))

(***************************************************************************)
(* C20.  ser.open() is attempted only on a closed transport; configuration *)
(* writes, receives and reset commands happen only while the transport is  *)
(* open; and whenever the outer loop is about to go round again (the sleep *)
(* after a failed open or after the catch block, the loop head with        *)
(* shutdown unset) the transport is closed.                                *)
(***************************************************************************)
ConfigPcs == {"cfg_comm", "cfg_misc", "cfg_zero", "advertise"} \cup {VectorParams[k] : k \in 1..Len(VectorParams)}

C20_TransportOpenDiscipline ==
    [][ /\ pc = "open" => ~isOpen
        /\ pc \in ConfigPcs \cup StreamingPcs => isOpen
        /\ srvUp => isOpen
        /\ pc = "sleep" => ~isOpen
        /\ (pc = "outer_head" /\ ok) => ~isOpen
        /\ (cfgLog' # cfgLog /\ cfgLog' # <<>>) => isOpen /\ isOpen'
        /\ srvLog' # <<>> => isOpen /\ isOpen'
        /\ (pc = "receive" /\ pc' # pc) => isOpen
        /\ (pc' = "outer_head" /\ pc # pc' /\ ok) => ~isOpen'
      ]_vars

\* an open is attempted after a streaming failure, on a closed transport
C20_Witness == pc = "open" /\ ~isOpen /\ last_error = ErrReceive /\ ok

(***************************************************************************)
(* C13.  publishMsgs emits on no channel that has no consumer: every       *)
(* channel published at a trigger (IMU, magnetic field, roll-pitch-yaw,    *)
(* temperature, GPS absolute and relative position, satellite count,       *)
(* dilution of precision, GPS status, GPS odometry) has a subscriber.      *)
(***************************************************************************)
C13_EmittedOnlyWithConsumer ==
    call.fn = "publishMsgs" => ret.published \subseteq call.subs

(***************************************************************************)
(* C14.  With GPS enabled, publishMsgs emits on every channel that has a   *)
(* consumer (the odometry channel when its topic parameter is set), and    *)
(* the dilution-of-precision channel carries x = hdop, y = hdop, z = vdop. *)
(***************************************************************************)
C14_GpsChannelsEmittedWithConsumer ==
    (call.fn = "publishMsgs" /\ ParamOr(call.gps_enable, GpsEnableDefault))
    => /\ \A c \in call.subs :
             (c = "gps_odom" => call.has_gps_odom) => c \in ret.published
       /\ "gps_dop" \in call.subs
          => ret.built["gps_dop"] = <<call.r.gps_status.hdop, call.r.gps_status.hdop,
                                      call.r.gps_status.vdop>>

(***************************************************************************)
(* C18.  The communication register carries in its baud field the code of  *)
(* the configured sensor baud rate (~baud, 115200 when unset) and in its   *)
(* GPS baud field the code of the configured GPS baud rate, GPS enabled or *)
(* not; the five GPS flags are set exactly when GPS is enabled.            *)
(***************************************************************************)
SensorBaudDefault == 115200

C18_CommRegCarriesConfiguredBauds ==
    (call.fn = "configureSensor" /\ ~ret.threw)
    => /\ ret.comm_reg.baud
            = baudValueToBitSetting(ParamOr(call.baud, SensorBaudDefault))
       /\ ret.comm_reg.gps_baud
            = baudValueToBitSetting(ParamOr(call.gps_baud, GpsBaudDefault))
       /\ IF ParamOr(call.gps_enable, GpsEnableDefault)
          THEN GpsFlags \subseteq ret.comm_reg.flags
          ELSE GpsFlags \cap ret.comm_reg.flags = {}

(***************************************************************************)
(* C19.  For every raw vector (a, b, c) the published angular velocity,    *)
(* linear acceleration, magnetic field and roll-pitch-yaw are each         *)
(* (b, a, -c) of their register; raw (1, 2, 3) is published as (2, 1, -3). *)
(***************************************************************************)
SwapXYNegZ(v) == <<v[2], v[1], 0 - v[3]>>

C19_NedToEnuRemap ==
    call.fn = "publishMsgs"
    => LET r == call.r
           out == ret.built
       IN  /\ "imu" \in ret.published
              => /\ out["imu"].angular_velocity = SwapXYNegZ(r.gyro)
                 /\ out["imu"].linear_acceleration = SwapXYNegZ(r.accel)
                 /\ r.gyro = <<1, 2, 3>> => out["imu"].angular_velocity = <<2, 1, -3>>
                 /\ r.accel = <<1, 2, 3>> => out["imu"].linear_acceleration = <<2, 1, -3>>
           /\ "mag" \in ret.published
              => /\ out["mag"] = SwapXYNegZ(r.mag)
                 /\ r.mag = <<1, 2, 3>> => out["mag"] = <<2, 1, -3>>
           /\ "rpy" \in ret.published
              => /\ out["rpy"] = SwapXYNegZ(r.euler)
                 /\ r.euler = <<1, 2, 3>> => out["rpy"] = <<2, 1, -3>>

\* the magnetic field register (1, 2, 3) was published, with the other three vectors
C19_Witness ==
    /\ call.fn = "publishMsgs"
    /\ call.r.mag = <<1, 2, 3>>
    /\ {"imu", "mag", "rpy"} \subseteq ret.published
    /\ ret.built["mag"] = <<2, 1, -3>>

====
